---- MODULE Spec2Model ----
(***************************************************************************)
(* Converters of onnx_chainer/functions/array.py.  A converter receives a  *)
(* source node (func), the requested opset version, the caller's list of   *)
(* input names, the output names, the session's context and the session's  *)
(* parameter list; it returns a tuple of target nodes or raises.           *)
(*                                                                         *)
(* Python values are encoded as follows.                                   *)
(*   - an optional value (x or None) is a sequence: <<>> is None, <<v>> is *)
(*     the value v;                                                        *)
(*   - a list, tuple or 1-d array is a sequence; list positions and axes   *)
(*     stay 0-based as in the source (PyIndex reads a sequence the way     *)
(*     Python's seq[k] does, negative k included);                         *)
(*   - a float is a reduced fraction [num, den];                           *)
(*   - a name is a record [k, n]: k says who made it (the caller's inputs  *)
(*     and outputs, a GraphBuilder, the context), n is its serial number;  *)
(*   - a chainer.Parameter is its object identity (a serial number).       *)
(***************************************************************************)
EXTENDS Integers, Sequences, FiniteSets, TLC

VARIABLES
    func,            \* the source node handed to the converter (its attributes now)
    func_pre,        \* the attributes of that node when the call started
    opset_version,   \* the version the converter is called with
    input_names,     \* the caller's input-name list (converters append to it)
    input_names_pre, \* that list when the call started
    output_names,    \* the output names the caller asks for
    parameters,      \* the session's parameter list (append-only)
    parameters_pre,  \* that list when the call started
    context,         \* the session's name registry
    new_params,      \* the tensors of the Parameters the last call created
    nodes,           \* the tuple the last call returned (<<>> when it raised)
    raised,          \* "none", or the exception the last call raised
    heap,            \* the number of Parameter objects created so far
    visits,          \* how often the walker handed this node to its converter
    pc               \* "idle" | "call" | "done"

vars == <<func, func_pre, opset_version, input_names, input_names_pre,
          output_names, parameters, parameters_pre, context, new_params,
          nodes, raised, heap, visits, pc>>

(***************************************************************************)
(* Bounds of the model.                                                    *)
(***************************************************************************)
MaxSlices == 4
MaxRank == 5
MaxInputs == 3
MaxPadRank == 2
MaxParams == 4
MaxVisits == 2

(***************************************************************************)
(* Python helpers.                                                         *)
(***************************************************************************)
None == <<>>

Some(v) == <<v>>

\* seq[k] of a Python list or tuple: defined for -len <= k < len.
PyInRange(seq, k) == -Len(seq) <= k /\ k < Len(seq)

PyIndex(seq, k) == IF k < 0 THEN seq[Len(seq) + k + 1] ELSE seq[k + 1]

RECURSIVE GcdNat(_, _)
GcdNat(a, b) == IF b = 0 THEN a ELSE GcdNat(b, a % b)

Abs(n) == IF n < 0 THEN -n ELSE n

\* float(a) / float(b) for integers a and b # 0, as a reduced fraction.
FloatDiv(a, b) ==
    LET g == GcdNat(Abs(a), Abs(b))
        s == IF b < 0 THEN -1 ELSE 1
    IN  [num |-> (s * a) \div g, den |-> (s * b) \div g]

\* float(n) of a Python int.
FloatOfInt(n) == [num |-> n, den |-> 1]

Name(kind, n) == [k |-> kind, n |-> n]

Node(op_type, inputs, outputs, attrs) ==
    [op_type |-> op_type, inputs |-> inputs, outputs |-> outputs, attrs |-> attrs]

NoAttrs == [a \in {} |-> 0]

Result(exc, ns) == [raised |-> exc, nodes |-> ns]

(***************************************************************************)
(* onnx_helper.GraphBuilder: the queue of nodes of one converter call.     *)
(* op enqueues a node bound to a fresh name of the builder and returns     *)
(* that name; op_output_named enqueues a node bound to the given names;    *)
(* nodes returns the queue in creation order, the last node rebound to     *)
(* output_names when they are given.                                       *)
(***************************************************************************)
GraphBuilder == <<>>

GbFresh(gb) == Name("gb", Len(gb) + 1)

GbOp(gb, op_type, inputs, attrs) ==
    Append(gb, Node(op_type, inputs, <<GbFresh(gb)>>, attrs))

GbOpOutputNamed(gb, op_type, inputs, outputs, attrs) ==
    Append(gb, Node(op_type, inputs, outputs, attrs))

\* The name gb.op returned for the node it enqueued last.
GbOutput(gb) == gb[Len(gb)].outputs[1]

GbNodes(gb) == gb

GbNodesNamed(gb, outputs) ==
    [j \in 1..Len(gb) |->
        IF j = Len(gb) THEN [gb[j] EXCEPT !.outputs = outputs] ELSE gb[j]]

(***************************************************************************)
(* convert_GetItem.  An index specifier of func.slices is a record:        *)
(*   [type |-> "slice", start, stop, step]   each of the three optional    *)
(*   [type |-> "int", val]                   a Python int                  *)
(*   [type |-> "ndarray", ndim, val]         a numpy array (val: its item) *)
(*   [type |-> "None"]                       the new-axis marker           *)
(*   [type |-> "Ellipsis"]                                                 *)
(*   [type |-> "list"]                       an advanced index             *)
(***************************************************************************)
Slice(start, stop, step) ==
    [type |-> "slice", start |-> start, stop |-> stop, step |-> step]

IntIdx(v) == [type |-> "int", val |-> v]

ArrayIdx(ndim, v) == [type |-> "ndarray", ndim |-> ndim, val |-> v]

NewAxis == [type |-> "None"]

EllipsisIdx == [type |-> "Ellipsis"]

ListIdx == [type |-> "list"]

\* The new-axis markers seen so far are not taken off the position.
SliceAxis_KeepNewAxes(i, unsqueeze_idxs, skipped) == i + skipped

\* line 86: the axis of x the specifier at position i indexes
SliceAxis(i, unsqueeze_idxs, skipped) == i - Len(unsqueeze_idxs) + skipped

\* Only a negative step is refused.
StepUnsupported_NegativeOnly(idx) == idx.step # None /\ idx.step[1] < 0

\* line 88
StepUnsupported(idx) == idx.step # None /\ idx.step[1] # 1

\* The squeezed axes seen so far are not taken off the position.
UnsqueezeAxis_KeepSqueezed(i, squeeze_idxs, skipped) == i + skipped

\* line 107
UnsqueezeAxis(i, squeeze_idxs, skipped) == i - Len(squeeze_idxs) + skipped

\* lines 111-112: len([idx_ for idx_ in func.slices[i+1:] if idx_ is not None])
RestSliceLen(slices, i) ==
    Cardinality({j \in (i + 2)..Len(slices) : slices[j].type # "None"})

\* The ellipsis' own position is not taken off.
EllipsisSkip_CountsItself(rank, axis, rest_slice_len) ==
    rank - axis - rest_slice_len

\* line 114
EllipsisSkip(rank, axis, rest_slice_len) == rank - axis - rest_slice_len - 1

GetItemStart ==
    [axes |-> <<>>, starts |-> <<>>, ends |-> <<>>,
     squeeze_idxs |-> <<>>, unsqueeze_idxs |-> <<>>,
     skipped |-> 0, raised |-> "none"]

\* One iteration of the loop of lines 84-119: i is enumerate's 0-based
\* position, idx the specifier there.
GetItemStep(st, i, f) ==
    LET idx == f.slices[i + 1]
        shape == f.x_shape
        axis == SliceAxis(i, st.unsqueeze_idxs, st.skipped)
    IN  CASE idx.type = "slice" ->
               IF StepUnsupported(idx)
               THEN [st EXCEPT !.raised = "ValueError"]
               ELSE IF idx.stop = None /\ ~PyInRange(shape, axis)
               THEN [st EXCEPT !.raised = "IndexError"]
               ELSE [st EXCEPT
                       !.axes = Append(@, axis),
                       !.starts = Append(@, IF idx.start = None THEN 0
                                            ELSE idx.start[1]),
                       !.ends = Append(@, IF idx.stop = None
                                          THEN PyIndex(shape, axis)
                                          ELSE idx.stop[1])]
          [] idx.type = "int" \/ (idx.type = "ndarray" /\ idx.ndim = 0) ->
               [st EXCEPT
                   !.axes = Append(@, axis),
                   !.starts = Append(@, idx.val),
                   !.ends = Append(@, idx.val + 1),
                   !.squeeze_idxs = Append(@, axis)]
          [] idx.type = "None" ->
               [st EXCEPT
                   !.unsqueeze_idxs =
                       Append(@, UnsqueezeAxis(i, st.squeeze_idxs, st.skipped))]
          [] idx.type = "Ellipsis" ->
               IF st.skipped # 0
               THEN [st EXCEPT !.raised = "AssertionError"]
               ELSE [st EXCEPT
                       !.skipped = EllipsisSkip(Len(shape), axis,
                                                RestSliceLen(f.slices, i))]
          [] OTHER -> [st EXCEPT !.raised = "ValueError"]

RECURSIVE GetItemLoop(_, _, _)
GetItemLoop(st, i, f) ==
    IF i >= Len(f.slices) \/ st.raised # "none"
    THEN st
    ELSE GetItemLoop(GetItemStep(st, i, f), i + 1, f)

\* The lists as they stand when the loop ends (or raises).
GetItemLists(f) == GetItemLoop(GetItemStart, 0, f)

\* lines 121-133
GetItemNodes(st, inputs, outputs) ==
    LET gb1 == GbOp(GraphBuilder, "Slice", inputs,
                    [axes |-> st.axes, starts |-> st.starts, ends |-> st.ends])
        gb2 == IF st.squeeze_idxs # <<>>
               THEN GbOp(gb1, "Squeeze", <<GbOutput(gb1)>>,
                         [axes |-> st.squeeze_idxs])
               ELSE gb1
        gb3 == IF st.unsqueeze_idxs # <<>>
               THEN GbOp(gb2, "Unsqueeze", <<GbOutput(gb2)>>,
                         [axes |-> st.unsqueeze_idxs])
               ELSE gb2
    IN  GbNodesNamed(gb3, outputs)

GetItem(f, inputs, outputs) ==
    LET st == GetItemLists(f)
    IN  IF st.raised # "none"
        THEN Result(st.raised, <<>>)
        ELSE Result("none", GetItemNodes(st, inputs, outputs))

(***************************************************************************)
(* convert_Pad.  func.pad_bw is a numpy array: [ndim |-> 1, rows |-> <<b,  *)
(* e>>] or [ndim |-> 2, rows |-> <<<<b1, e1>>, ...>>].  func.keywords is a *)
(* dict (a function of its keys).  A Python number is [type |-> "int", val *)
(* |-> n] or [type |-> "float", val |-> fraction]; a list or tuple of      *)
(* numbers is [type |-> "list", items |-> <<...>>].                        *)
(***************************************************************************)
PyInt(n) == [type |-> "int", val |-> n]

PyFloat(num, den) == [type |-> "float", val |-> FloatDiv(num, den)]

PyList(items) == [type |-> "list", items |-> items]

\* float(v) of a Python number
PyToFloat(v) == IF v.type = "int" THEN FloatOfInt(v.val) ELSE v.val

PadModes == {"constant", "reflect", "edge"}

\* lines 146-148: np.tile(pad_bw, (len(x.shape), 1)) of a 1-d pad_bw
PadRows(f) ==
    IF f.pad_bw.ndim = 1
    THEN [j \in 1..Len(f.x_shape) |-> f.pad_bw.rows]
    ELSE f.pad_bw.rows

\* lines 149-152
PadList(rows) ==
    [j \in 1..Len(rows) |-> rows[j][1]] \o [j \in 1..Len(rows) |-> rows[j][2]]

\* lines 165-178 and 180-193: the attribute that holds the pad list
PadAttrs(version, mode, pad, value) ==
    IF version = 1
    THEN [mode |-> mode, paddings |-> pad, value |-> value]
    ELSE [mode |-> mode, pads |-> pad, value |-> value]

PadNode(version, mode, pad, value, inputs, outputs) ==
    IF version \in {1, 2}
    THEN Result("none",
                <<Node("Pad", inputs, outputs, PadAttrs(version, mode, pad, value))>>)
    ELSE Result("UnboundLocalError", <<>>)

\* lines 155-163: the fill value, or the exception its computation raises
PadValue(values) ==
    IF values.type = "int"
    THEN [raised |-> "none", value |-> FloatOfInt(values.val)]
    ELSE IF values.type # "list"
    THEN [raised |-> "TypeError", value |-> FloatOfInt(0)]    \* len(values)
    ELSE IF Len(values.items) > 1
    THEN [raised |-> "ValueError", value |-> FloatOfInt(0)]
    ELSE IF Len(values.items) = 0
    THEN [raised |-> "IndexError", value |-> FloatOfInt(0)]   \* values[0]
    ELSE [raised |-> "none", value |-> PyToFloat(values.items[1])]

Pad(f, version, inputs, outputs) ==
    IF f.mode \notin PadModes
    THEN Result("ValueError", <<>>)
    ELSE LET pad == PadList(PadRows(f))
         IN  IF "constant_values" \in DOMAIN f.keywords
             THEN LET v == PadValue(f.keywords.constant_values)
                  IN  IF v.raised # "none"
                      THEN Result(v.raised, <<>>)
                      ELSE PadNode(version, f.mode, pad, v.value, inputs, outputs)
             ELSE PadNode(version, f.mode, pad, FloatOfInt(0), inputs, outputs)

(***************************************************************************)
(* convert_Stack, convert_Hstack, convert_Vstack, convert_Dstack.          *)
(***************************************************************************)
\* [gb.op(op_type, [name], **attrs) for name in names]: the builder afterwards
RECURSIVE GbOpEach(_, _, _, _)
GbOpEach(gb, op_type, names, attrs) ==
    IF names = <<>>
    THEN gb
    ELSE GbOpEach(GbOp(gb, op_type, <<Head(names)>>, attrs),
                  op_type, Tail(names), attrs)

\* ... and the list of the n names those calls returned
GbLastOutputs(gb, n) == [j \in 1..n |-> gb[Len(gb) - n + j].outputs[1]]

\* A negative axis counted from the rank of the inputs, not of the result.
StackAxis_FromInputRank(f) ==
    IF f.axis < 0 THEN Len(f.x_shape) + f.axis ELSE f.axis

\* lines 418-420
StackAxis(f) ==
    IF f.axis < 0 THEN Len(f.x_shape) + 1 + f.axis ELSE f.axis

\* lines 423-425
Stack(f, inputs, outputs) ==
    LET axis == StackAxis(f)
        gb1 == GbOpEach(GraphBuilder, "Unsqueeze", inputs, [axes |-> <<axis>>])
        unsqueezed == GbLastOutputs(gb1, Len(inputs))
        gb2 == GbOpOutputNamed(gb1, "Concat", unsqueezed, outputs, [axis |-> axis])
    IN  Result("none", GbNodes(gb2))

\* The axes each input is unsqueezed at (<<>>: the inputs are used as they
\* are) for an input of rank input0_ndim: lines 434-438, 448-452, 462-469.
HstackUnsqueeze(input0_ndim) ==
    IF input0_ndim = 0 THEN <<0>> ELSE <<>>

\* Rank-1 inputs are concatenated as they are.
VstackUnsqueeze_ScalarsOnly(input0_ndim) ==
    IF input0_ndim = 0 THEN <<0, 1>> ELSE <<>>

VstackUnsqueeze(input0_ndim) ==
    IF input0_ndim = 0 THEN <<0, 1>>
    ELSE IF input0_ndim = 1 THEN <<0>>
    ELSE <<>>

DstackUnsqueeze(input0_ndim) ==
    IF input0_ndim = 0 THEN <<0, 1, 2>>
    ELSE IF input0_ndim = 1 THEN <<0, 2>>
    ELSE IF input0_ndim = 2 THEN <<2>>
    ELSE <<>>

\* lines 433-438
HstackAxis(input0_ndim) ==
    IF input0_ndim = 0 THEN 0
    ELSE IF input0_ndim = 1 THEN 0
    ELSE 1

\* The shape the three converters share: unsqueeze every input when the
\* rank asks for it, then one Concat bound to the output names.
UnsqueezeConcat(unsqueeze_axes, axis, inputs, outputs) ==
    LET gb1 == IF unsqueeze_axes # <<>>
               THEN GbOpEach(GraphBuilder, "Unsqueeze", inputs,
                             [axes |-> unsqueeze_axes])
               ELSE GraphBuilder
        ins == IF unsqueeze_axes # <<>>
               THEN GbLastOutputs(gb1, Len(inputs))
               ELSE inputs
        gb2 == GbOpOutputNamed(gb1, "Concat", ins, outputs, [axis |-> axis])
    IN  Result("none", GbNodes(gb2))

Hstack(f, inputs, outputs) ==
    UnsqueezeConcat(HstackUnsqueeze(Len(f.x_shape)), HstackAxis(Len(f.x_shape)),
                    inputs, outputs)

Vstack(f, inputs, outputs) ==
    UnsqueezeConcat(VstackUnsqueeze(Len(f.x_shape)), 0, inputs, outputs)

Dstack(f, inputs, outputs) ==
    UnsqueezeConcat(DstackUnsqueeze(Len(f.x_shape)), 2, inputs, outputs)

(***************************************************************************)
(* The session: the context's name registry and the parameter list.        *)
(* context.get_name(value) returns the name the value already has, or      *)
(* registers the next name of the context's counter for it.                *)
(***************************************************************************)
EmptyContext == [names |-> [o \in {} |-> 0], counter |-> 0]

ContextGetName(ctx, obj) ==
    IF obj \in DOMAIN ctx.names
    THEN ctx
    ELSE [names |-> [o \in DOMAIN ctx.names \cup {obj} |->
                        IF o = obj THEN ctx.counter ELSE ctx.names[o]],
          counter |-> ctx.counter + 1]

ContextName(ctx, obj) == Name("v", ctx.names[obj])

Tensor(dtype, data) == [dtype |-> dtype, data |-> data]

\* What a converter call can change: the source node, the caller's input
\* names, the parameter list, the context, the heap.
CallState(f, inputs, params, ctx, hp) ==
    [func |-> f, input_names |-> inputs, parameters |-> params,
     context |-> ctx, heap |-> hp, new_params |-> <<>>]

\* p = chainer.Parameter(tensor): a new object
NewParameter(cs, tensor) ==
    [cs EXCEPT !.heap = @ + 1,
               !.new_params = Append(@, [id |-> cs.heap + 1, tensor |-> tensor])]

\* The object NewParameter created last.
LastParameter(cs) == cs.heap

\* parameters.append(p)
ParametersAppend(cs, p) == [cs EXCEPT !.parameters = Append(@, p)]

\* context.get_name(p): the call state afterwards, and the name returned
GetName(cs, p) == [cs EXCEPT !.context = ContextGetName(@, p)]

NameOf(cs, p) == ContextName(ContextGetName(cs.context, p), p)

\* p = chainer.Parameter(tensor); parameters.append(p);
\* input_names.append(context.get_name(p))
AddInputParameter(cs, tensor) ==
    LET cs1 == NewParameter(cs, tensor)
        p == LastParameter(cs1)
        cs2 == ParametersAppend(cs1, p)
        cs3 == GetName(cs2, p)
    IN  [cs3 EXCEPT !.input_names = Append(@, NameOf(cs2, p))]

Returned(cs, ns) == [raised |-> "none", nodes |-> ns, cs |-> cs]

Raised(cs, exc) == [raised |-> exc, nodes |-> <<>>, cs |-> cs]

(***************************************************************************)
(* convert_Reshape                                                         *)
(***************************************************************************)
Reshape(cs, version, outputs) ==
    IF version = 1
    THEN Returned(cs, <<Node("Reshape", cs.input_names, outputs,
                             [shape |-> cs.func.shape])>>)
    ELSE LET cs1 == AddInputParameter(cs, Tensor("int64", cs.func.shape))
         IN  Returned(cs1, <<Node("Reshape", cs1.input_names, outputs, NoAttrs)>>)

(***************************************************************************)
(* convert_Tile                                                            *)
(***************************************************************************)
\* lines 287-288
TileReps(f) ==
    IF f.reps.type = "int" THEN [f EXCEPT !.reps = PyList(<<f.reps.val>>)] ELSE f

\* lines 289-293
TileTilesParam(cs) ==
    AddInputParameter(cs, Tensor("int64", cs.func.reps.items))

\* The tiles parameter is appended a second time in place of a new one.
TileAxisParam_Reuse(cs) ==
    LET p == LastParameter(cs)
        cs1 == ParametersAppend(cs, p)
        cs2 == GetName(cs1, p)
    IN  [cs2 EXCEPT !.input_names = Append(@, NameOf(cs1, p))]

\* lines 297-300
TileAxisParam(cs) ==
    AddInputParameter(cs,
        Tensor("float32",
               [j \in 1..Len(cs.func.reps.items) |-> FloatOfInt(j - 1)]))

Tile(cs, version, outputs) ==
    LET cs1 == [cs EXCEPT !.func = TileReps(@)]
        cs2 == TileTilesParam(cs1)
        cs3 == IF version = 1 THEN TileAxisParam(cs2) ELSE cs2
    IN  Returned(cs3, <<Node("Tile", cs3.input_names, outputs, NoAttrs)>>)

(***************************************************************************)
(* convert_Repeat                                                          *)
(***************************************************************************)
\* lines 354-355: scales = [1.0] * ndim; scales[axis] = float(repeats[0])
RepeatScales(ndim, axis, repeat) ==
    [j \in 1..ndim |->
        IF j = (IF axis < 0 THEN ndim + axis + 1 ELSE axis + 1)
        THEN FloatOfInt(repeat) ELSE FloatOfInt(1)]

\* lines 357-367, from the inputs and scales the two branches leave
RepeatUpsample(cs, gb, inputs, scales, version, outputs) ==
    IF version = 7
    THEN Returned(cs, GbNodes(GbOpOutputNamed(gb, "Upsample", inputs, outputs,
                                              [scales |-> scales])))
    ELSE LET cs1 == NewParameter(cs, Tensor("float32", scales))
             p == LastParameter(cs1)
             cs2 == ParametersAppend(cs1, p)
             cs3 == GetName(cs2, p)
             ins == Append(inputs, NameOf(cs2, p))
         IN  Returned(cs3, GbNodes(GbOpOutputNamed(gb, "Upsample", ins, outputs,
                                                   NoAttrs)))

Repeat(cs, version, outputs) ==
    LET f == cs.func
        ndim == Len(f.x_shape)
    IN  IF Len(f.repeats) > 1
        THEN Raised(cs, "NotImplementedError")
        ELSE IF f.axis = None
        THEN LET cs1 == AddInputParameter(cs, Tensor("int64", <<-1>>))
                 gb == GbOp(GraphBuilder, "Reshape", cs1.input_names, NoAttrs)
             IN  RepeatUpsample(cs1, gb, <<GbOutput(gb)>>,
                                <<FloatOfInt(f.repeats[1])>>, version, outputs)
        ELSE IF ~(-ndim <= f.axis[1] /\ f.axis[1] < ndim)
        THEN Raised(cs, "IndexError")
        ELSE RepeatUpsample(cs, GraphBuilder, cs.input_names,
                            RepeatScales(ndim, f.axis[1], f.repeats[1]),
                            version, outputs)

(***************************************************************************)
(* convert_ResizeImages                                                    *)
(***************************************************************************)
\* scale < 1.0e-8 of a fraction with a positive denominator
TooSmall(scale) == scale.num * 100000000 < scale.den

ResizeImages(cs, version, outputs) ==
    LET f == cs.func
    IN  IF Len(f.x_shape) # 4
        THEN Raised(cs, "ValueError")               \* h, w = shape[2:]
        ELSE IF f.x_shape[3] = 0 \/ f.x_shape[4] = 0
        THEN Raised(cs, "ZeroDivisionError")
        ELSE LET scales == <<FloatOfInt(1), FloatOfInt(1),
                             FloatDiv(f.out_H, f.x_shape[3]),
                             FloatDiv(f.out_W, f.x_shape[4])>>
             IN  IF TooSmall(scales[3]) /\ TooSmall(scales[4])
                 THEN Raised(cs, "ValueError")
                 ELSE IF version = 7
                 THEN Returned(cs, <<Node("Upsample", cs.input_names, outputs,
                                          [scales |-> scales, mode |-> "linear"])>>)
                 ELSE LET cs1 == AddInputParameter(cs, Tensor("float32", scales))
                      IN  Returned(cs1, <<Node("Upsample", cs1.input_names,
                                               outputs, [mode |-> "linear"])>>)

(***************************************************************************)
(* The source nodes and calls the model draws from.                        *)
(***************************************************************************)
\* A shape of rank r with pairwise different extents: (4, 5, 6, ...).
ShapeOfRank(r) == [j \in 1..r |-> j + 3]

InputList(n) == [j \in 1..n |-> Name("in", j)]

OutputList == <<Name("out", 1)>>

Specifiers ==
    {Slice(None, None, None), Slice(Some(1), Some(2), Some(1)),
     Slice(None, None, Some(2)),
     IntIdx(1), IntIdx(2), IntIdx(3), ArrayIdx(0, 0),
     NewAxis, EllipsisIdx, ListIdx}

GetItemFunc(sl, r) ==
    [op |-> "GetItem", slices |-> sl, x_shape |-> ShapeOfRank(r)]

PadWidths == {1, 2}

PadBws ==
    {[ndim |-> 1, rows |-> <<b, e>>] : b \in PadWidths, e \in PadWidths}
    \cup UNION {{[ndim |-> 2, rows |-> rows] :
                    rows \in [1..n -> PadWidths \X PadWidths]} :
                n \in 1..MaxPadRank}

PadKeywords ==
    {NoAttrs} \cup
    {[constant_values |-> v] :
        v \in {PyInt(5), PyFloat(1, 2), PyList(<<PyInt(5)>>),
               PyList(<<PyFloat(1, 2)>>), PyList(<<PyInt(5), PyInt(6)>>),
               PyList(<<>>)}}

PadFuncs ==
    {[op |-> "Pad", mode |-> m, pad_bw |-> bw, keywords |-> kw,
      x_shape |-> ShapeOfRank(r)] :
        m \in PadModes \cup {"mean"}, bw \in PadBws, kw \in PadKeywords,
        r \in 1..MaxPadRank}

\* np.pad accepts a 2-d pad_bw only with one row per axis of x.
PadFuncsValid ==
    {f \in PadFuncs : f.pad_bw.ndim = 2 => Len(f.pad_bw.rows) = Len(f.x_shape)}

StackFuncs ==
    UNION {{[op |-> "Stack", axis |-> a, x_shape |-> ShapeOfRank(r)] :
               a \in (-(r + 1))..r} : r \in 0..MaxRank}

HVDstackFuncs ==
    {[op |-> o, x_shape |-> ShapeOfRank(r)] :
        o \in {"Hstack", "Vstack", "Dstack"}, r \in 0..MaxRank}

\* The versions a converter is registered for (its @support line); a
\* converter without one is called with whatever version the session has.
SupportedVersions(op) ==
    CASE op = "Pad" -> {1, 2}
      [] op = "Reshape" -> {1, 5}
      [] op = "Tile" -> {1, 6}
      [] op \in {"Repeat", "ResizeImages"} -> {7, 9}
      [] OTHER -> {9}

Call(f, version, n) == [func |-> f, version |-> version, n |-> n]

ReshapeFuncs == {[op |-> "Reshape", shape |-> sh] : sh \in {<<-1>>, <<2, 3>>}}

TileFuncs ==
    {[op |-> "Tile", reps |-> r] :
        r \in {PyInt(2), PyList(<<2>>), PyList(<<1, 2>>)}}

RepeatFuncs ==
    {[op |-> "Repeat", repeats |-> rp, axis |-> a, x_shape |-> ShapeOfRank(2)] :
        rp \in {<<2>>, <<2, 3>>},
        a \in {None, Some(0), Some(1), Some(-1), Some(2)}}

ResizeImagesFuncs ==
    {[op |-> "ResizeImages", out_H |-> h, out_W |-> w,
      x_shape |-> ShapeOfRank(4)] : h \in {0, 8}, w \in {0, 8}}

\* The calls of the converters that materialize constants.
SessionCalls ==
    {Call(f, v, 1) :
        f \in ReshapeFuncs \cup TileFuncs \cup RepeatFuncs \cup ResizeImagesFuncs,
        v \in {1, 5, 6, 7, 9}}

SessionCallsValid == {c \in SessionCalls : c.version \in SupportedVersions(c.func.op)}

(***************************************************************************)
(* The state machine.                                                      *)
(***************************************************************************)
\* The walker hands call c to its converter.
Begin(c) ==
    /\ func' = c.func
    /\ func_pre' = c.func
    /\ opset_version' = c.version
    /\ input_names' = InputList(c.n)
    /\ input_names_pre' = InputList(c.n)
    /\ output_names' = OutputList
    /\ parameters_pre' = parameters
    /\ new_params' = <<>>
    /\ nodes' = <<>>
    /\ raised' = "none"
    /\ visits' = 1
    /\ pc' = "call"
    /\ UNCHANGED <<parameters, context, heap>>

\* The state in which call c starts in a session that made no call yet.
InitCall(c) ==
    /\ func = c.func
    /\ func_pre = c.func
    /\ opset_version = c.version
    /\ input_names = InputList(c.n)
    /\ input_names_pre = InputList(c.n)
    /\ output_names = OutputList
    /\ parameters = <<>>
    /\ parameters_pre = <<>>
    /\ context = EmptyContext
    /\ new_params = <<>>
    /\ nodes = <<>>
    /\ raised = "none"
    /\ heap = 0
    /\ visits = 1
    /\ pc = "call"

\* One call of a converter that touches neither the parameter list nor the
\* context, on one source node.
InitConvert ==
    \/ \E n \in 0..MaxSlices : \E sl \in [1..n -> Specifiers] :
          \E r \in 0..MaxRank : InitCall(Call(GetItemFunc(sl, r), 9, 1))
    \/ \E f \in PadFuncsValid : \E v \in SupportedVersions("Pad") :
          InitCall(Call(f, v, 1))
    \/ \E f \in StackFuncs \cup HVDstackFuncs : \E n \in 1..MaxInputs :
          InitCall(Call(f, 9, n))

\* A session before its first call.
Init ==
    /\ func = [op |-> "none"]
    /\ func_pre = [op |-> "none"]
    /\ opset_version = 0
    /\ input_names = <<>>
    /\ input_names_pre = <<>>
    /\ output_names = <<>>
    /\ parameters = <<>>
    /\ parameters_pre = <<>>
    /\ context = EmptyContext
    /\ new_params = <<>>
    /\ nodes = <<>>
    /\ raised = "none"
    /\ heap = 0
    /\ visits = 0
    /\ pc = "idle"

\* A converter that leaves the session and its arguments alone returns r.
Finish(r) ==
    /\ nodes' = r.nodes
    /\ raised' = r.raised
    /\ pc' = "done"
    /\ UNCHANGED <<func, func_pre, opset_version, input_names, input_names_pre,
                   output_names, parameters, parameters_pre, context,
                   new_params, heap, visits>>

\* A converter that works on the call state returns r.
FinishSession(r) ==
    /\ nodes' = r.nodes
    /\ raised' = r.raised
    /\ func' = r.cs.func
    /\ input_names' = r.cs.input_names
    /\ parameters' = r.cs.parameters
    /\ context' = r.cs.context
    /\ heap' = r.cs.heap
    /\ new_params' = r.cs.new_params
    /\ pc' = "done"
    /\ UNCHANGED <<func_pre, opset_version, input_names_pre, output_names,
                   parameters_pre, visits>>

Calling(op) == pc = "call" /\ func.op = op

Now == CallState(func, input_names, parameters, context, heap)

convert_GetItem ==
    /\ Calling("GetItem")
    /\ Finish(GetItem(func, input_names, output_names))

convert_Pad ==
    /\ Calling("Pad")
    /\ Finish(Pad(func, opset_version, input_names, output_names))

convert_Stack ==
    /\ Calling("Stack")
    /\ Finish(Stack(func, input_names, output_names))

convert_Hstack ==
    /\ Calling("Hstack")
    /\ Finish(Hstack(func, input_names, output_names))

convert_Vstack ==
    /\ Calling("Vstack")
    /\ Finish(Vstack(func, input_names, output_names))

convert_Dstack ==
    /\ Calling("Dstack")
    /\ Finish(Dstack(func, input_names, output_names))

convert_Reshape ==
    /\ Calling("Reshape")
    /\ FinishSession(Reshape(Now, opset_version, output_names))

convert_Tile ==
    /\ Calling("Tile")
    /\ FinishSession(Tile(Now, opset_version, output_names))

convert_Repeat ==
    /\ Calling("Repeat")
    /\ FinishSession(Repeat(Now, opset_version, output_names))

convert_ResizeImages ==
    /\ Calling("ResizeImages")
    /\ FinishSession(ResizeImages(Now, opset_version, output_names))

\* The walker goes on to another source node.  A call that raised aborts
\* the session.
Visit ==
    /\ pc \in {"idle", "done"}
    /\ raised = "none"
    /\ Len(parameters) < MaxParams
    /\ \E c \in SessionCallsValid : Begin(c)

\* The same source node is converted again, with the attributes it has now.
Revisit ==
    /\ pc = "done"
    /\ raised = "none"
    /\ visits < MaxVisits
    /\ Len(parameters) < MaxParams
    /\ func_pre' = func
    /\ input_names' = input_names_pre
    /\ parameters_pre' = parameters
    /\ new_params' = <<>>
    /\ nodes' = <<>>
    /\ visits' = visits + 1
    /\ pc' = "call"
    /\ UNCHANGED <<func, opset_version, input_names_pre, output_names,
                   parameters, context, raised, heap>>

NextConvert ==
    \/ convert_GetItem
    \/ convert_Pad
    \/ convert_Stack
    \/ convert_Hstack
    \/ convert_Vstack
    \/ convert_Dstack

Next ==
    \/ Visit
    \/ Revisit
    \/ convert_Reshape
    \/ convert_Tile
    \/ convert_Repeat
    \/ convert_ResizeImages

\* One call of a converter that leaves the session alone.
SpecConvert == InitConvert /\ [][NextConvert]_vars

\* A session of calls of the converters that materialize constants.
Spec == Init /\ [][Next]_vars

(***************************************************************************)
(* Reading the result of a call.                                           *)
(***************************************************************************)
Done(op) == pc = "done" /\ func_pre.op = op

Returns(op) == Done(op) /\ raised = "none"

HasNode(op_type) == \E j \in 1..Len(nodes) : nodes[j].op_type = op_type

TheNode(op_type) ==
    nodes[CHOOSE j \in 1..Len(nodes) : nodes[j].op_type = op_type]

\* The axes of the node of that type, <<>> when the call emitted none.
AxesOfNode(op_type) ==
    IF HasNode(op_type) THEN TheNode(op_type).attrs.axes ELSE <<>>

\* Every input of a node is one of the caller's inputs or an output of an
\* earlier node of the tuple.
NoForwardReference ==
    \A j \in 1..Len(nodes) : \A k \in 1..Len(nodes[j].inputs) :
        \/ \E m \in 1..Len(input_names) : nodes[j].inputs[k] = input_names[m]
        \/ \E e \in 1..(j - 1) : \E m \in 1..Len(nodes[e].outputs) :
              nodes[j].inputs[k] = nodes[e].outputs[m]

\* Slice -> [Squeeze ->] [Unsqueeze]: each node reads the one before it, the
\* first reads the caller's inputs, the last writes the caller's outputs.
IsChain ==
    /\ nodes # <<>>
    /\ nodes[1].inputs = input_names
    /\ \A j \in 2..Len(nodes) : nodes[j].inputs = nodes[j - 1].outputs
    /\ nodes[Len(nodes)].outputs = output_names

(***************************************************************************)
(* C1.                                                                     *)
(***************************************************************************)
C1_Case ==
    /\ Done("GetItem")
    /\ Len(func_pre.x_shape) = 4
    /\ func_pre.slices = <<IntIdx(2), Slice(None, None, None), NewAxis, EllipsisIdx>>

\* C1 as stated: a rank-4 input indexed by [2, :, None, ...] gives a Slice
\* node with axes=[0], starts=[2], ends=[3], a Squeeze node with axes=[0] and
\* an Unsqueeze node with axes=[1].
C1_AsStated ==
    C1_Case =>
        /\ raised = "none"
        /\ HasNode("Slice")
        /\ TheNode("Slice").attrs = [axes |-> <<0>>, starts |-> <<2>>, ends |-> <<3>>]
        /\ AxesOfNode("Squeeze") = <<0>>
        /\ AxesOfNode("Unsqueeze") = <<1>>

\* C1, amended: the full slice at position 1 gets an entry too.  The Slice
\* node has axes=[0,1], starts=[2,0], ends=[3, x.shape[1]]; it is followed by
\* a Squeeze node with axes=[0] and an Unsqueeze node with axes=[1], chained
\* in that order.
C1_SliceSqueezeUnsqueeze ==
    C1_Case =>
        /\ raised = "none"
        /\ Len(nodes) = 3
        /\ nodes[1].op_type = "Slice"
        /\ nodes[1].attrs = [axes |-> <<0, 1>>, starts |-> <<2, 0>>,
                             ends |-> <<3, func_pre.x_shape[2]>>]
        /\ nodes[2].op_type = "Squeeze"
        /\ nodes[2].attrs = [axes |-> <<0>>]
        /\ nodes[3].op_type = "Unsqueeze"
        /\ nodes[3].attrs = [axes |-> <<1>>]
        /\ IsChain

C1_Witness == C1_Case /\ raised = "none" /\ Len(nodes) = 3

(***************************************************************************)
(* C2.                                                                     *)
(***************************************************************************)
C2_Case ==
    /\ Done("GetItem")
    /\ Len(func_pre.x_shape) = 5
    /\ func_pre.slices = <<IntIdx(1), EllipsisIdx, IntIdx(3)>>

\* C2 as stated: for a rank-5 input indexed by [1, ..., 3] the ellipsis
\* yields 3 entries of axes/starts/ends beside those of the two integers.
C2_AsStated ==
    C2_Case =>
        /\ raised = "none"
        /\ HasNode("Slice")
        /\ Len(TheNode("Slice").attrs.axes) = 2 + 3
        /\ Len(TheNode("Slice").attrs.starts) = 2 + 3
        /\ Len(TheNode("Slice").attrs.ends) = 2 + 3

\* C2, amended: the ellipsis stands for the 3 source dimensions 1, 2, 3 and
\* they get no entry: the Slice node has axes=[0,4], starts=[1,3],
\* ends=[2,4], the two integers alone, and both axes are squeezed.
C2_EllipsisSkipsThree ==
    C2_Case =>
        /\ raised = "none"
        /\ Len(nodes) = 2
        /\ nodes[1].op_type = "Slice"
        /\ nodes[1].attrs = [axes |-> <<0, 4>>, starts |-> <<1, 3>>,
                             ends |-> <<2, 4>>]
        /\ nodes[2].op_type = "Squeeze"
        /\ nodes[2].attrs = [axes |-> <<0, 4>>]
        /\ IsChain

C2_Witness == C2_Case /\ raised = "none" /\ Len(nodes) = 2

(***************************************************************************)
(* C3.                                                                     *)
(***************************************************************************)
HasStepSlice(sl) ==
    \E j \in 1..Len(sl) :
        sl[j].type = "slice" /\ sl[j].step # <<>> /\ sl[j].step # <<1>>

\* C3: a call whose index sequence holds a slice with a step other than 1,
\* wherever it stands, raises, returns no node and leaves the caller's input
\* names and the parameter list as they were.
C3_StepSliceRejected ==
    (Done("GetItem") /\ HasStepSlice(func_pre.slices)) =>
        /\ raised # "none"
        /\ nodes = <<>>
        /\ input_names = input_names_pre
        /\ parameters = parameters_pre

\* The step slice comes last, after an integer and a new-axis marker.
C3_Witness ==
    /\ Done("GetItem")
    /\ func_pre.slices = <<IntIdx(1), NewAxis, Slice(None, None, Some(2))>>
    /\ raised = "ValueError"
    /\ nodes = <<>>

(***************************************************************************)
(* C4.                                                                     *)
(***************************************************************************)
\* Per-axis pad widths and a scalar fill, in a mode the converter accepts.
C4_Case ==
    /\ Done("Pad")
    /\ func_pre.mode \in {"constant", "reflect", "edge"}
    /\ func_pre.pad_bw.ndim = 2
    /\ "constant_values" \in DOMAIN func_pre.keywords
    /\ func_pre.keywords.constant_values.type \in {"int", "float"}

C4_Begins == [j \in 1..Len(func_pre.pad_bw.rows) |-> func_pre.pad_bw.rows[j][1]]

C4_Ends == [j \in 1..Len(func_pre.pad_bw.rows) |-> func_pre.pad_bw.rows[j][2]]

C4_Fill ==
    LET c == func_pre.keywords.constant_values
    IN  IF c.type = "int" THEN [num |-> c.val, den |-> 1] ELSE c.val

\* C4: with pad widths [[b_1,e_1],...,[b_n,e_n]] and a scalar fill c the
\* converter returns one Pad node, its pad list [b_1..b_n, e_1..e_n] under
\* the key paddings at version 1 and pads at version 2, its value float(c).
C4_OnePadNode ==
    C4_Case =>
        /\ raised = "none"
        /\ Len(nodes) = 1
        /\ nodes[1].op_type = "Pad"
        /\ nodes[1].inputs = input_names
        /\ nodes[1].outputs = output_names
        /\ DOMAIN nodes[1].attrs =
               {"mode", "value", IF opset_version = 1 THEN "paddings" ELSE "pads"}
        /\ nodes[1].attrs.value = C4_Fill
        /\ (opset_version = 1 => nodes[1].attrs.paddings = C4_Begins \o C4_Ends)
        /\ (opset_version = 2 => nodes[1].attrs.pads = C4_Begins \o C4_Ends)

\* The part of C4 the code keeps: an int fill.
C4_IntFill ==
    (C4_Case /\ func_pre.keywords.constant_values.type = "float") \/ C4_OnePadNode

(***************************************************************************)
(* C5.                                                                     *)
(***************************************************************************)
C5_Axis ==
    IF func_pre.axis < 0
    THEN Len(func_pre.x_shape) + 1 + func_pre.axis
    ELSE func_pre.axis

\* C5: stacking N inputs along axis a (a negative axis counted from rank+1)
\* returns N Unsqueeze nodes, one per input in input order, each with
\* axes=[a], then one Concat node with axis=a over the N Unsqueeze outputs
\* in that order, bound to the caller's output names; no node reads a name
\* made later.
C5_StackDecomposition ==
    Done("Stack") =>
        LET n == Len(input_names) IN
        /\ raised = "none"
        /\ Len(nodes) = n + 1
        /\ \A j \in 1..n :
              /\ nodes[j].op_type = "Unsqueeze"
              /\ nodes[j].inputs = <<input_names[j]>>
              /\ nodes[j].attrs = [axes |-> <<C5_Axis>>]
              /\ Len(nodes[j].outputs) = 1
        /\ nodes[n + 1].op_type = "Concat"
        /\ nodes[n + 1].attrs = [axis |-> C5_Axis]
        /\ nodes[n + 1].inputs = [j \in 1..n |-> nodes[j].outputs[1]]
        /\ nodes[n + 1].outputs = output_names
        /\ \A j \in 1..n : \A k \in 1..n :
              j # k => nodes[j].outputs # nodes[k].outputs
        /\ NoForwardReference

\* Three rank-1 inputs stacked along the last axis, given as -1.
C5_Witness ==
    /\ Done("Stack")
    /\ Len(input_names) = 3
    /\ Len(func_pre.x_shape) = 1
    /\ func_pre.axis = -1
    /\ Len(nodes) = 4

(***************************************************************************)
(* C7.                                                                     *)
(***************************************************************************)
C7_Rank == Len(func_pre.x_shape)

C7_Stacking == \E op \in {"Hstack", "Vstack", "Dstack"} : Returns(op)

\* One Concat over the caller's input names and nothing else.
C7_ConcatOnly ==
    /\ Len(nodes) = 1
    /\ nodes[1].op_type = "Concat"
    /\ nodes[1].inputs = input_names

\* One Unsqueeze with these axes per input, in input order, then one Concat
\* with this axis over their outputs.
C7_UnsqueezeThenConcat(axes, axis) ==
    LET n == Len(input_names) IN
    /\ Len(nodes) = n + 1
    /\ \A j \in 1..n :
          /\ nodes[j].op_type = "Unsqueeze"
          /\ nodes[j].inputs = <<input_names[j]>>
          /\ nodes[j].attrs = [axes |-> axes]
    /\ nodes[n + 1].op_type = "Concat"
    /\ nodes[n + 1].inputs = [j \in 1..n |-> nodes[j].outputs[1]]
    /\ nodes[n + 1].attrs = [axis |-> axis]
    /\ nodes[n + 1].outputs = output_names

\* The least rank the inputs of the Concat have: 1, 2, 3.
C7_TargetRank ==
    CASE func_pre.op = "Hstack" -> 1
      [] func_pre.op = "Vstack" -> 2
      [] func_pre.op = "Dstack" -> 3

\* C7 as stated: rank 0 inputs are unsqueezed to rank 1 or 2; rank 1 inputs
\* are unsqueezed by Dstack only, Hstack and Vstack return a single Concat
\* over the input names; inputs of at least the target rank are concatenated
\* directly.
C7_AsStated ==
    C7_Stacking =>
        /\ C7_Rank = 0 =>
              /\ HasNode("Unsqueeze")
              /\ Len(AxesOfNode("Unsqueeze")) \in {1, 2}
        /\ C7_Rank = 1 =>
              IF func_pre.op = "Dstack"
              THEN HasNode("Unsqueeze")
              ELSE C7_ConcatOnly
        /\ C7_Rank >= C7_TargetRank => C7_ConcatOnly

\* C7, amended: an input below the target rank (1 for Hstack, 2 for Vstack,
\* 3 for Dstack) is unsqueezed up to it: rank 0 at [0], [0,1], [0,1,2]; rank
\* 1 at [0] by Vstack and at [0,2] by Dstack, Hstack alone returning a single
\* Concat over the input names; rank 2 at [2] by Dstack.  Inputs of at least
\* the target rank are concatenated directly.  The Concat axis is 0 for
\* Vstack, 2 for Dstack, and for Hstack 0 up to rank 1 and 1 above.
C7_RankTable ==
    C7_Stacking =>
        LET r == C7_Rank
            axis == CASE func_pre.op = "Hstack" -> IF r <= 1 THEN 0 ELSE 1
                      [] func_pre.op = "Vstack" -> 0
                      [] func_pre.op = "Dstack" -> 2
            axes == CASE func_pre.op = "Hstack" -> IF r = 0 THEN <<0>> ELSE <<>>
                      [] func_pre.op = "Vstack" ->
                           IF r = 0 THEN <<0, 1>>
                           ELSE IF r = 1 THEN <<0>> ELSE <<>>
                      [] func_pre.op = "Dstack" ->
                           IF r = 0 THEN <<0, 1, 2>>
                           ELSE IF r = 1 THEN <<0, 2>>
                           ELSE IF r = 2 THEN <<2>> ELSE <<>>
        IN  /\ (r >= C7_TargetRank) = (axes = <<>>)
            /\ r < C7_TargetRank => r + Len(axes) = C7_TargetRank
            /\ IF axes = <<>>
               THEN /\ C7_ConcatOnly
                    /\ nodes[1].attrs = [axis |-> axis]
                    /\ nodes[1].outputs = output_names
               ELSE C7_UnsqueezeThenConcat(axes, axis)
            /\ NoForwardReference

\* Vstack of two rank-1 inputs: two Unsqueeze nodes and the Concat.
C7_Witness ==
    /\ Returns("Vstack")
    /\ C7_Rank = 1
    /\ Len(input_names) = 2
    /\ Len(nodes) = 3

(***************************************************************************)
(* C9.                                                                     *)
(***************************************************************************)
C9_Ellipses(sl) == Cardinality({j \in 1..Len(sl) : sl[j].type = "Ellipsis"})

\* C9: a call whose index sequence holds two or more ellipsis markers
\* aborts and returns no node.
C9_SecondEllipsisAborts ==
    (Done("GetItem") /\ C9_Ellipses(func_pre.slices) >= 2) =>
        /\ raised # "none"
        /\ nodes = <<>>

(***************************************************************************)
(* C10.  What numpy's x[slices] means, read off the index sequence itself. *)
(***************************************************************************)
C10_Count(sl, types) ==
    Cardinality({j \in 1..Len(sl) : sl[j].type \in types})

\* The specifiers that consume a source dimension.
C10_Consuming(sl) == C10_Count(sl, {"slice", "int", "ndarray"})

\* The source dimensions the specifiers leave to the ellipsis (or to the
\* implicit tail of the index).
C10_Implicit(sl, shape) == Len(shape) - C10_Consuming(sl)

C10_Supported(sl, shape) ==
    /\ \A j \in 1..Len(sl) :
          \/ sl[j].type = "slice" /\ sl[j].step \in {<<>>, <<1>>}
          \/ sl[j].type = "int"
          \/ sl[j].type = "ndarray" /\ sl[j].ndim = 0
          \/ sl[j].type \in {"None", "Ellipsis"}
    /\ C10_Count(sl, {"Ellipsis"}) <= 1
    /\ C10_Consuming(sl) <= Len(shape)

\* The dimensions of the result that precede position p of the sequence.
C10_DimsBefore(sl, shape, p) ==
    Cardinality({j \in 1..(p - 1) : sl[j].type \in {"slice", "None"}})
    + (IF \E j \in 1..(p - 1) : sl[j].type = "Ellipsis"
       THEN C10_Implicit(sl, shape) ELSE 0)

\* The positions of the new-axis markers, in order.
RECURSIVE C10_NewAxisPositions(_, _)
C10_NewAxisPositions(sl, p) ==
    IF p > Len(sl) THEN <<>>
    ELSE (IF sl[p].type = "None" THEN <<p>> ELSE <<>>)
         \o C10_NewAxisPositions(sl, p + 1)

\* The shape of x[slices]: ax source dimensions are consumed before
\* position p.
RECURSIVE C10_ResultShape(_, _, _, _)
C10_ResultShape(sl, shape, p, ax) ==
    IF p > Len(sl)
    THEN SubSeq(shape, ax + 1, Len(shape))
    ELSE CASE sl[p].type = "slice" ->
                <<(IF sl[p].stop = <<>> THEN shape[ax + 1] ELSE sl[p].stop[1])
                  - (IF sl[p].start = <<>> THEN 0 ELSE sl[p].start[1])>>
                \o C10_ResultShape(sl, shape, p + 1, ax + 1)
           [] sl[p].type \in {"int", "ndarray"} ->
                C10_ResultShape(sl, shape, p + 1, ax + 1)
           [] sl[p].type = "None" ->
                <<1>> \o C10_ResultShape(sl, shape, p + 1, ax)
           [] sl[p].type = "Ellipsis" ->
                SubSeq(shape, ax + 1, ax + C10_Implicit(sl, shape))
                \o C10_ResultShape(sl, shape, p + 1, ax + C10_Implicit(sl, shape))

\* The target operators on shapes.  Slice cuts the listed axes, Squeeze
\* drops the listed axes, Unsqueeze makes the listed axes of its output new
\* axes of extent 1.
C10_Sliced(shape, axes, starts, ends) ==
    [a \in 1..Len(shape) |->
        IF \E k \in 1..Len(axes) : axes[k] = a - 1
        THEN LET k == CHOOSE k \in 1..Len(axes) : axes[k] = a - 1
             IN  ends[k] - starts[k]
        ELSE shape[a]]

C10_InSeq(seq, v) == \E k \in 1..Len(seq) : seq[k] = v

RECURSIVE C10_Squeezed(_, _, _)
C10_Squeezed(shape, axes, a) ==
    IF a > Len(shape) THEN <<>>
    ELSE (IF C10_InSeq(axes, a - 1) THEN <<>> ELSE <<shape[a]>>)
         \o C10_Squeezed(shape, axes, a + 1)

C10_Unsqueezed(shape, axes) ==
    [a \in 1..(Len(shape) + Len(axes)) |->
        IF C10_InSeq(axes, a - 1)
        THEN 1
        ELSE shape[a - Cardinality({k \in 1..Len(axes) : axes[k] < a - 1})]]

C10_PipelineShape ==
    LET sl == TheNode("Slice").attrs
        sliced == C10_Sliced(func_pre.x_shape, sl.axes, sl.starts, sl.ends)
        squeezed == C10_Squeezed(sliced, AxesOfNode("Squeeze"), 1)
    IN  C10_Unsqueezed(squeezed, AxesOfNode("Unsqueeze"))

C10_Case ==
    Done("GetItem") /\ C10_Supported(func_pre.slices, func_pre.x_shape)

\* C10: for an index sequence of stepless slices, integers, new-axis markers
\* and at most one ellipsis that consumes no more dimensions than x has, the
\* call returns; axes, starts and ends are equally long; axes is strictly
\* increasing within [0, rank); squeeze_idxs is a sub-list of axes (the
\* axes of the integers); each entry of unsqueeze_idxs is the number of
\* result dimensions before its new-axis marker; and Slice, Squeeze,
\* Unsqueeze in this order give the shape of x[slices], of rank
\* rank - len(squeeze_idxs) + len(unsqueeze_idxs).
C10_ListsFitPipeline ==
    C10_Case =>
        /\ raised = "none"
        /\ IsChain
        /\ nodes[1].op_type = "Slice"
        /\ LET sl == func_pre.slices
               shape == func_pre.x_shape
               axes == nodes[1].attrs.axes
               starts == nodes[1].attrs.starts
               ends == nodes[1].attrs.ends
               squeeze == AxesOfNode("Squeeze")
               unsqueeze == AxesOfNode("Unsqueeze")
               marks == C10_NewAxisPositions(sl, 1)
           IN  /\ Len(axes) = Len(starts) /\ Len(starts) = Len(ends)
               /\ Len(axes) = C10_Consuming(sl)
               /\ \A k \in 1..Len(axes) : 0 <= axes[k] /\ axes[k] < Len(shape)
               /\ \A k \in 1..(Len(axes) - 1) : axes[k] < axes[k + 1]
               /\ Len(squeeze) = C10_Count(sl, {"int", "ndarray"})
               /\ \A k \in 1..Len(squeeze) : C10_InSeq(axes, squeeze[k])
               /\ \A k \in 1..(Len(squeeze) - 1) : squeeze[k] < squeeze[k + 1]
               /\ Len(unsqueeze) = Len(marks)
               /\ \A k \in 1..Len(marks) :
                     unsqueeze[k] = C10_DimsBefore(sl, shape, marks[k])
               /\ C10_PipelineShape = C10_ResultShape(sl, shape, 1, 0)
               /\ Len(C10_PipelineShape)
                    = Len(shape) - Len(squeeze) + Len(unsqueeze)
               /\ HasNode("Squeeze") = (squeeze # <<>>)
               /\ Len(nodes) = 1 + (IF squeeze # <<>> THEN 1 ELSE 0)
                                  + (IF unsqueeze # <<>> THEN 1 ELSE 0)

\* An integer, then the ellipsis standing for two dimensions, then a
\* new-axis marker, then a slice.
C10_Witness ==
    /\ C10_Case
    /\ Len(func_pre.x_shape) = 4
    /\ func_pre.slices = <<IntIdx(1), EllipsisIdx, NewAxis, Slice(None, None, None)>>
    /\ AxesOfNode("Unsqueeze") = <<2>>
    /\ Len(nodes) = 3

(***************************************************************************)
(* C6.                                                                     *)
(***************************************************************************)
C6_NewIds == [k \in 1..Len(new_params) |-> new_params[k].id]

\* C6: in a session, whatever calls of Reshape, Tile, Repeat and
\* ResizeImages were made and on whatever nodes, the Parameters a call
\* appends are objects it created itself, every Parameter of the list has a
\* name in the context, and no two of them have the same name.
C6_ParameterNamesDistinct ==
    /\ \A i \in 1..Len(parameters) : parameters[i] \in DOMAIN context.names
    /\ \A i \in 1..Len(parameters) : \A j \in 1..Len(parameters) :
          i # j => ContextName(context, parameters[i])
                   # ContextName(context, parameters[j])
    /\ pc = "done" =>
          /\ parameters = parameters_pre \o C6_NewIds
          /\ \A k \in 1..Len(C6_NewIds) :
                ~\E i \in 1..Len(parameters_pre) : parameters_pre[i] = C6_NewIds[k]

\* The same Tile node converted twice at version 1, its attributes the same
\* both times: four Parameters.
C6_Witness ==
    /\ Returns("Tile")
    /\ visits = 2
    /\ func = func_pre
    /\ opset_version = 1
    /\ Len(parameters_pre) = 2
    /\ Len(parameters) = 4

(***************************************************************************)
(* C8.                                                                     *)
(***************************************************************************)
\* C8: when a converter is done the source node has the attributes it had
\* when the call started.
C8_SourceNodeUnchanged == pc = "done" => func = func_pre

====
